---- MODULE Spec2Model ----
(***************************************************************************)
(* Model of the PDF verification pipeline (main.py) and of the signals it  *)
(* runs: revision (revision/pdf_revision.py), metadata                     *)
(* (metadata/scan_validator.py, metadata/common_utils.py) and rescan       *)
(* (rescan/rescan_detector.py).                                            *)
(*                                                                         *)
(* Python values are modelled as follows: str is a TLA+ string (TLC        *)
(* evaluates Len, Head, Tail, SubSeq and \o on strings), dict is a         *)
(* function whose domain is the set of its keys, None is the value None,   *)
(* a float score is an integer number of tenths, and a call that may       *)
(* raise yields Return(value) or Raise(type, text).                        *)
(***************************************************************************)
EXTENDS Integers, Sequences, FiniteSets, TLC

VARIABLES
    env,        \* the host and the command line: argc, which, isfile
    pc,         \* position of main()
    report,     \* the report dict of main()
    stdout,     \* the documents printed so far
    exit_code,  \* <<status>> once sys.exit(status) was called, NoExit before
    ran,        \* the signals called so far, in order
    sig,        \* the last signal called: what it read and what it gave back
    calls       \* history: the (verdict, reason) pairs given to _update_overall

vars == <<env, pc, report, stdout, exit_code, ran, sig, calls>>

(***************************************************************************)
(* Bounds of the model.                                                    *)
(***************************************************************************)
MaxCalls == 3
MaxVersions == 3

(***************************************************************************)
(* Python values.                                                          *)
(***************************************************************************)
None == [py |-> "None"]
EmptyDict == [k \in {} |-> ""]
NoExit == << >>

Return(v) == [kind |-> "return", value |-> v]
Raise(type, text) == [kind |-> "raise", type |-> type, text |-> text]

DictGet(d, k, default) == IF k \in DOMAIN d THEN d[k] ELSE default
DictSet(d, k, v) == [x \in (DOMAIN d) \cup {k} |-> IF x = k THEN v ELSE d[x]]

(***************************************************************************)
(* str methods.                                                            *)
(***************************************************************************)
UPPER == "ABCDEFGHIJKLMNOPQRSTUVWXYZ"
LOWER == "abcdefghijklmnopqrstuvwxyz"
DIGITS == "0123456789"
WHITESPACE == {" ", "\t", "\n"}

Char(s, i) == SubSeq(s, i, i)

IndexIn(alphabet, c) ==
    IF \E i \in 1..Len(alphabet) : Char(alphabet, i) = c
    THEN CHOOSE i \in 1..Len(alphabet) : Char(alphabet, i) = c
    ELSE 0

\* The lower-case letter of each upper-case letter.
LowerOf ==
    [c \in {Char(UPPER, i) : i \in 1..Len(UPPER)} |-> Char(LOWER, IndexIn(UPPER, c))]

lower_char(c) == IF c \in DOMAIN LowerOf THEN LowerOf[c] ELSE c

RECURSIVE lower(_)
lower(s) == IF s = "" THEN "" ELSE lower_char(Head(s)) \o lower(Tail(s))

RECURSIVE lstrip(_, _)
lstrip(s, chars) ==
    IF s # "" /\ Head(s) \in chars THEN lstrip(Tail(s), chars) ELSE s

RECURSIVE rstrip(_, _)
rstrip(s, chars) ==
    IF s # "" /\ Char(s, Len(s)) \in chars
    THEN rstrip(SubSeq(s, 1, Len(s) - 1), chars)
    ELSE s

\* s.strip()
strip(s) == rstrip(lstrip(s, WHITESPACE), WHITESPACE)

\* s.strip(chars)
strip_chars(s, chars) == rstrip(lstrip(s, chars), chars)

\* Python's `t in s` on strings.
Contains(s, t) ==
    \E i \in 1..(Len(s) - Len(t) + 1) : SubSeq(s, i, i + Len(t) - 1) = t

(***************************************************************************)
(* main.py: the helpers.                                                   *)
(***************************************************************************)
\* A plausible slip: the value is stripped but not lower-cased.
_norm_verdict_case_sensitive(v) ==
    CHOOSE canonical \in
        {LET w == strip(x)
         IN  IF w \in {"valid", "ok"} THEN "valid"
             ELSE IF w \in {"borderline", "suspect", "warning", "warn"} THEN "suspect"
             ELSE IF w \in {"invalid", "invalide"} THEN "invalid"
             ELSE IF w \in {"falsified", "forged"} THEN "falsified"
             ELSE "unknown" : x \in {v}} : TRUE

\* v is a str, or "" for None: `(v or "")` gives "" for both.  The argument of
\* a Python call is evaluated once, before the call: x is its value.
_norm_verdict(v) ==
    CHOOSE canonical \in
        {LET w == lower(strip(x))
         IN  IF w \in {"valid", "ok"} THEN "valid"
             ELSE IF w \in {"borderline", "suspect", "warning", "warn"} THEN "suspect"
             ELSE IF w \in {"invalid", "invalide"} THEN "invalid"
             ELSE IF w \in {"falsified", "forged"} THEN "falsified"
             ELSE "unknown" : x \in {v}} : TRUE

\* A plausible slip: unknown ranked with suspect.
_priority_unknown_ranked(verdict) ==
    LET v == _norm_verdict(verdict)
    IN  CASE v = "falsified" -> 3
          [] v = "invalid" -> 2
          [] v = "suspect" -> 1
          [] v = "unknown" -> 1
          [] OTHER -> 0

_priority(verdict) ==
    LET v == _norm_verdict(verdict)
    IN  CASE v = "falsified" -> 3
          [] v = "invalid" -> 2
          [] v = "suspect" -> 1
          [] OTHER -> 0

_init_overall == [verdict |-> "valid", reasons |-> << >>]

\* A plausible slip: the verdict is overwritten without the severity test.
_update_overall_overwrite(rep, new_verdict, reason) ==
    LET r1 == IF "overall" \notin DOMAIN rep
              THEN DictSet(rep, "overall", _init_overall) ELSE rep
        r2 == [r1 EXCEPT !.overall = DictSet(@, "verdict", _norm_verdict(new_verdict))]
        v_norm == _norm_verdict(new_verdict)
    IN  IF reason # "" /\ v_norm \in {"suspect", "invalid", "falsified", "unknown"}
        THEN [r2 EXCEPT !.overall =
                 DictSet(@, "reasons", Append(DictGet(@, "reasons", << >>), reason))]
        ELSE r2

\* A plausible slip: "unknown" is left out of the problematic verdicts.
_update_overall_no_unknown(rep, new_verdict, reason) ==
    LET r1 == IF "overall" \notin DOMAIN rep
              THEN DictSet(rep, "overall", _init_overall) ELSE rep
        cur_v == DictGet(r1.overall, "verdict", "valid")
        r2 == IF _priority(new_verdict) > _priority(cur_v)
              THEN [r1 EXCEPT !.overall = DictSet(@, "verdict", _norm_verdict(new_verdict))]
              ELSE r1
        v_norm == _norm_verdict(new_verdict)
    IN  IF reason # "" /\ v_norm \in {"suspect", "invalid", "falsified"}
        THEN [r2 EXCEPT !.overall =
                 DictSet(@, "reasons", Append(DictGet(@, "reasons", << >>), reason))]
        ELSE r2

\* A plausible slip: the message is appended whatever the verdict.
_update_overall_any_reason(rep, new_verdict, reason) ==
    LET r1 == IF "overall" \notin DOMAIN rep
              THEN DictSet(rep, "overall", _init_overall) ELSE rep
        cur_v == DictGet(r1.overall, "verdict", "valid")
        r2 == IF _priority(new_verdict) > _priority(cur_v)
              THEN [r1 EXCEPT !.overall = DictSet(@, "verdict", _norm_verdict(new_verdict))]
              ELSE r1
    IN  IF reason # ""
        THEN [r2 EXCEPT !.overall =
                 DictSet(@, "reasons", Append(DictGet(@, "reasons", << >>), reason))]
        ELSE r2

\* Returns the report as the call leaves it (the code mutates it in place).
_update_overall(rep, new_verdict, reason) ==
    LET r1 == IF "overall" \notin DOMAIN rep
              THEN DictSet(rep, "overall", _init_overall) ELSE rep
        cur_v == DictGet(r1.overall, "verdict", "valid")
        r2 == IF _priority(new_verdict) > _priority(cur_v)
              THEN [r1 EXCEPT !.overall = DictSet(@, "verdict", _norm_verdict(new_verdict))]
              ELSE r1
        v_norm == _norm_verdict(new_verdict)
    IN  IF reason # "" /\ v_norm \in {"suspect", "invalid", "falsified", "unknown"}
        THEN [r2 EXCEPT !.overall =
                 DictSet(@, "reasons", Append(DictGet(@, "reasons", << >>), reason))]
        ELSE r2

Submission(v, r) == [verdict |-> v, reason |-> r]

(***************************************************************************)
(* _update_overall on its own: any verdict string, any message.            *)
(***************************************************************************)
VerdictStrings == {"valid", "OK", " Suspect", "invalide", "Forged\n", "", "n/a"}
ReasonStrings == {"", "r1", "r2"}

NoSignal == [step |-> "none"]
DefaultEnv == [argc |-> 2, which |-> TRUE, isfile |-> TRUE]

InitUpdate ==
    /\ env = DefaultEnv
    /\ pc = "update"
    /\ report = [overall |-> _init_overall]
    /\ stdout = << >>
    /\ exit_code = NoExit
    /\ ran = << >>
    /\ sig = NoSignal
    /\ calls = << >>

Submit ==
    /\ pc = "update"
    /\ Len(calls) < MaxCalls
    /\ \E v \in VerdictStrings, r \in ReasonStrings :
          /\ report' = _update_overall(report, v, r)
          /\ calls' = Append(calls, Submission(v, r))
    /\ UNCHANGED <<env, pc, stdout, exit_code, ran, sig>>

NextUpdate == Submit

SpecUpdate == InitUpdate /\ [][NextUpdate]_vars

(***************************************************************************)
(* _norm_verdict on its own: the canonical values, their synonyms and      *)
(* other words, in lower and upper case, bare or surrounded by whitespace. *)
(***************************************************************************)
UpperOf ==
    [c \in {Char(LOWER, i) : i \in 1..Len(LOWER)} |-> Char(UPPER, IndexIn(LOWER, c))]

RECURSIVE upper(_)
upper(s) ==
    IF s = "" THEN ""
    ELSE (IF Head(s) \in DOMAIN UpperOf THEN UpperOf[Head(s)] ELSE Head(s))
             \o upper(Tail(s))

NormWords ==
    {"valid", "ok", "suspect", "borderline", "warning", "warn", "invalid",
     "invalide", "falsified", "forged", "unknown", "", "n/a", "oui", "o k",
     "validd", "okay", "forge"}

NormInputs ==
    UNION {{[word |-> w, v |-> l \o c \o r] :
               c \in {w, upper(w)}, l \in {"", " ", "\t"}, r \in {"", "\n"}} :
           w \in NormWords}

InitNorm ==
    /\ env = DefaultEnv
    /\ pc = "normalize"
    /\ report = EmptyDict
    /\ stdout = << >>
    /\ exit_code = NoExit
    /\ ran = << >>
    /\ sig = NoSignal
    /\ calls = << >>

Normalize ==
    /\ pc = "normalize"
    /\ \E i \in NormInputs :
          sig' = [step |-> "normalize", word |-> i.word, v |-> i.v,
                  result |-> _norm_verdict(i.v)]
    /\ pc' = "normalized"
    /\ UNCHANGED <<env, report, stdout, exit_code, ran, calls>>

NextNorm == Normalize

SpecNorm == InitNorm /\ [][NextNorm]_vars

(***************************************************************************)
(* revision/pdf_revision.py                                                *)
(*                                                                         *)
(* What the revision signal reads from the host is one record w:           *)
(*   w.tool  what `pdfresurrect -q <path>` does when it is run: it prints  *)
(*           w.tool.out, or exits non-zero (CalledProcessError);           *)
(*   w.stat_ok, w.ctime_ms, w.mtime_ms  os.stat: whether it succeeds, and  *)
(*           st_ctime and st_mtime in milliseconds;                        *)
(*   w.pdf   what PyPDF2 gives: "unavailable" (the import failed), "raise" *)
(*           (PdfReader or the metadata access raised), or "ok" with the   *)
(*           document information dict w.pdf.metadata.                     *)
(***************************************************************************)
PDF_PATH == "doc.pdf"

ToolLine(n) == PDF_PATH \o ": " \o ToString(n)
ToolOutputs == {"", "no revision info\n"} \cup {ToolLine(n) \o "\n" : n \in 0..MaxVersions}
ToolOutcomes ==
    {[kind |-> "error", text |-> "Command returned non-zero exit status 1."]}
        \cup {[kind |-> "out", out |-> o] : o \in ToolOutputs}

DateStrings == {"D:20240101120000", "D:20250101120000"}
DateKeys == {"/CreationDate", "/ModDate"}
PdfInfos == UNION {[D -> DateStrings] : D \in SUBSET DateKeys}
PdfOutcomes ==
    {[kind |-> "unavailable"], [kind |-> "raise"]}
        \cup {[kind |-> "ok", metadata |-> m] : m \in PdfInfos}

MtimesMs == {5000}
CtimesMs == {3999, 5000, 6000, 6001}

RevisionWorlds ==
    [tool : ToolOutcomes, stat_ok : BOOLEAN, ctime_ms : CtimesMs,
     mtime_ms : MtimesMs, pdf : PdfOutcomes]

\* What a host can show the revision signal: a file that does not exist has
\* no status and no content, and a tool that is not installed is not run.
RevisionWorldFits(e, w) ==
    /\ ~e.isfile => (~w.stat_ok /\ w.pdf.kind # "ok" /\ w.tool.kind = "error")
    /\ ~w.stat_ok => w.ctime_ms \in MtimesMs
    /\ ~e.which => w.tool.kind = "error"

Abs(x) == IF x < 0 THEN -x ELSE x
Max(a, b) == IF a >= b THEN a ELSE b

\* The longest suffix of s made of digits: group 1 of re.search(r"(\d+)\s*$", s)
\* on a stripped s, "" when there is no match.
RECURSIVE TrailingDigits(_)
TrailingDigits(s) ==
    IF s # "" /\ IndexIn(DIGITS, Char(s, Len(s))) > 0
    THEN TrailingDigits(SubSeq(s, 1, Len(s) - 1)) \o Char(s, Len(s))
    ELSE ""

\* int() of a string of digits.
RECURSIVE ParseInt(_)
ParseInt(s) ==
    IF s = "" THEN 0
    ELSE 10 * ParseInt(SubSeq(s, 1, Len(s) - 1)) + (IndexIn(DIGITS, Char(s, Len(s))) - 1)

FileNotFoundText == "Le fichier " \o PDF_PATH \o " n'existe pas"

analyze_with_pdfresurrect(e, w) ==
    IF ~e.which
    THEN Raise("PdfResurrectNotFound", "pdfresurrect introuvable dans le PATH.")
    ELSE IF ~e.isfile
    THEN Raise("FileNotFoundError", FileNotFoundText)
    ELSE IF w.tool.kind = "error"
    THEN Raise("RuntimeError",
               "Erreur lors de l'execution de pdfresurrect: " \o w.tool.text)
    ELSE LET out == strip(w.tool.out)
             m == TrailingDigits(out)
             versions == Max(1, IF m # "" THEN ParseInt(m) ELSE 1)
             rewrites == Max(0, versions - 1)
         IN  IF rewrites > 0
             THEN Return([ok |-> FALSE,
                          rewrites |-> rewrites,
                          method |-> "pdfresurrect",
                          message |-> ToString(rewrites) \o " reecriture"
                                      \o (IF rewrites > 1 THEN "s" ELSE "")
                                      \o " detectee"
                                      \o (IF rewrites > 1 THEN "s" ELSE "")
                                      \o " (pdfresurrect)."])
             ELSE Return(None)

DatesEqualResult(comparison_method) ==
    [ok |-> TRUE, rewrites |-> 0, method |-> "dates_" \o comparison_method,
     message |-> "PDF non falsifie (dates de creation/modification identiques)."]

\* A plausible slip: a date mismatch reported without a rewrite count.
DatesDifferResult_norewrite(comparison_method) ==
    [ok |-> FALSE, rewrites |-> 0, method |-> "dates_" \o comparison_method,
     message |-> "Reecriture detectee (dates de creation/modification differentes)."]

DatesDifferResult(comparison_method) ==
    [ok |-> FALSE, rewrites |-> 1, method |-> "dates_" \o comparison_method,
     message |-> "Reecriture detectee (dates de creation/modification differentes)."]

\* The pair (creation, modification) read from the PDF; "" stands for a date
\* that was not read (None) or is empty: line 96 tests truthiness only.
PdfDates(w) ==
    IF w.pdf.kind = "ok" /\ w.pdf.metadata # EmptyDict
    THEN LET creation_date == DictGet(w.pdf.metadata, "/CreationDate", "")
             mod_date == DictGet(w.pdf.metadata, "/ModDate", "")
         IN  IF creation_date # "" /\ mod_date # ""
             THEN <<creation_date, mod_date>>
             ELSE <<"", "">>
    ELSE <<"", "">>

analyze_with_dates(e, w) ==
    IF ~e.isfile
    THEN Raise("FileNotFoundError", FileNotFoundText)
    ELSE IF ~w.stat_ok
    THEN Return([ok |-> FALSE, rewrites |-> 0, method |-> "dates_error",
                 message |-> "Erreur lors de l'analyse des dates: stat failed"])
    ELSE LET pdf_creation_date == PdfDates(w)[1]
             pdf_modification_date == PdfDates(w)[2]
             use_pdf == pdf_creation_date # "" /\ pdf_modification_date # ""
             dates_equal == IF use_pdf
                            THEN pdf_creation_date = pdf_modification_date
                            ELSE Abs(w.ctime_ms - w.mtime_ms) <= 1000
             comparison_method == IF use_pdf THEN "pdf_metadata" ELSE "filesystem"
         IN  IF dates_equal
             THEN Return(DatesEqualResult(comparison_method))
             ELSE Return(DatesDifferResult(comparison_method))

ErrorResult(text) ==
    [ok |-> FALSE, rewrites |-> 0, method |-> "error",
     message |-> "Erreur lors de l'analyse: " \o text]

\* A plausible slip: no fallback when the tool is missing.
analyze_pdf_complete_nofallback(e, w) ==
    LET r == analyze_with_pdfresurrect(e, w)
    IN  IF r.kind = "return"
        THEN IF r.value # None
             THEN r
             ELSE LET d == analyze_with_dates(e, w)
                  IN  IF d.kind = "raise" THEN Return(ErrorResult(d.text)) ELSE d
        ELSE r

\* A plausible slip: a document the tool finds clean is reported clean without
\* the comparison of dates.
analyze_pdf_complete_toolonly(e, w) ==
    LET r == analyze_with_pdfresurrect(e, w)
    IN  IF r.kind = "return"
        THEN IF r.value # None
             THEN r
             ELSE Return([ok |-> TRUE, rewrites |-> 0, method |-> "pdfresurrect",
                          message |-> "Aucune reecriture detectee (pdfresurrect)."])
        ELSE IF r.type = "PdfResurrectNotFound"
        THEN analyze_with_dates(e, w)
        ELSE Return(ErrorResult(r.text))

\* The call's outcome: Return(dict), or Raise when an exception leaves it.
\* The fallback of line 159 runs inside an except clause, so what it raises
\* is not caught by the `except Exception` that follows.
analyze_pdf_complete(e, w) ==
    LET r == analyze_with_pdfresurrect(e, w)
    IN  IF r.kind = "return"
        THEN IF r.value # None
             THEN r
             ELSE LET d == analyze_with_dates(e, w)
                  IN  IF d.kind = "raise" THEN Return(ErrorResult(d.text)) ELSE d
        ELSE IF r.type = "PdfResurrectNotFound"
        THEN analyze_with_dates(e, w)
        ELSE Return(ErrorResult(r.text))

\* The calls analyze_pdf_complete(pdf_path) can be: the host, what the
\* document and the tool show, and what the call gives back or raises.
RevisionRuns ==
    {[which |-> e.which, isfile |-> e.isfile, world |-> w,
      result |-> analyze_pdf_complete(e, w)] :
        <<e, w>> \in {<<e, w>> \in [which : BOOLEAN, isfile : BOOLEAN] \X RevisionWorlds :
                         RevisionWorldFits(e, w)}}

(***************************************************************************)
(* metadata/common_utils.py, metadata/scan_validator.py                    *)
(*                                                                         *)
(* What the metadata signal reads is one record w:                         *)
(*   w.pypdf  "absent" (the import failed), "raise" (PdfReader raised) or  *)
(*            "ok" with the document information dict w.pypdf.info;        *)
(*   w.fitz   "raise" (fitz.open raised) or "ok" with w.fitz.info.         *)
(***************************************************************************)
SCAN_BLACKLIST ==
    <<"photoshop", "adobe photoshop", "gimp", "affinity photo",
      "illustrator", "adobe illustrator", "corel", "paintshop", "inkscape",
      "paint", "paint 3d", "photopea", "pixlr", "krita", "canva", "figma",
      "sketch", "procreate", "clip studio paint", "sai", "artrage",
      "adobe acrobat 25.1 image conversion plug-in">>

MetaValues == {"", "HP Scan", " Adobe Photoshop 25.0 "}
PypdfInfos == {EmptyDict} \cup [{"/Creator", "/Producer"} -> MetaValues]
FitzInfos == [{"creator", "producer"} -> MetaValues]

PypdfOutcomes ==
    {[kind |-> "absent"], [kind |-> "raise"]}
        \cup {[kind |-> "ok", info |-> m] : m \in PypdfInfos}
FitzOutcomes ==
    {[kind |-> "raise"]} \cup {[kind |-> "ok", info |-> m] : m \in FitzInfos}

MetadataWorlds == [pypdf : PypdfOutcomes, fitz : FitzOutcomes]

\* What a host can show the metadata signal: a file that does not exist has
\* no content.
MetadataWorldFits(e, w) ==
    ~e.isfile => (w.pypdf.kind # "ok" /\ w.fitz.kind # "ok")

PypdfKey(k) == lower(strip_chars(k, {"/"}))

\* meta[str(k).strip("/").lower()] = str(info[k]) for k in info.
extract_metadata_pypdf(w) ==
    IF w.pypdf.kind # "ok" THEN EmptyDict
    ELSE LET info == w.pypdf.info
         IN  [kk \in {PypdfKey(k) : k \in DOMAIN info} |->
                 info[CHOOSE k \in DOMAIN info : PypdfKey(k) = kk]]

\* meta[k.lower()] = str(v) for k, v in info.items().
extract_metadata_fitz(w) ==
    IF w.fitz.kind # "ok" THEN EmptyDict
    ELSE LET info == w.fitz.info
         IN  [kk \in {lower(k) : k \in DOMAIN info} |->
                 info[CHOOSE k \in DOMAIN info : lower(k) = kk]]

merge_metadata(a, b) ==
    [k \in (DOMAIN a) \cup (DOMAIN b) |->
        IF k \in DOMAIN b /\ (k \notin DOMAIN a \/ a[k] = "") THEN b[k] ELSE a[k]]

\* x is a str, or "" for the None of a missing key.
lower_or_empty(x) == lower(strip(x))

\* A plausible slip: the loop does not stop at the first entry found, so the
\* last matching entry is the one reported.
RECURSIVE FirstInBlacklist_last(_, _)
FirstInBlacklist_last(combined_text, blacklist) ==
    IF blacklist = << >> THEN <<FALSE, "">>
    ELSE LET rest == FirstInBlacklist_last(combined_text, Tail(blacklist))
         IN  IF rest[1] THEN rest
             ELSE IF Contains(combined_text, lower(Head(blacklist)))
             THEN <<TRUE, Head(blacklist)>>
             ELSE <<FALSE, "">>

RECURSIVE FirstInBlacklist(_, _)
FirstInBlacklist(combined_text, blacklist) ==
    IF blacklist = << >> THEN <<FALSE, "">>
    ELSE IF Contains(combined_text, lower(Head(blacklist)))
    THEN <<TRUE, Head(blacklist)>>
    ELSE FirstInBlacklist(combined_text, Tail(blacklist))

is_in_blacklist(creator, producer, blacklist) ==
    FirstInBlacklist(lower(creator \o " " \o producer), blacklist)

OrElse(x, y) == IF x # "" THEN x ELSE y

extract_all_metadata(w) ==
    LET meta_all == merge_metadata(extract_metadata_pypdf(w), extract_metadata_fitz(w))
        get(k) == DictGet(meta_all, k, "")
    IN  [producer |-> lower_or_empty(get("producer")),
         creator |-> lower_or_empty(get("creator")),
         application |-> lower_or_empty(OrElse(get("application"), get("app"))),
         title |-> lower_or_empty(get("title")),
         author |-> lower_or_empty(get("author")),
         moddate |-> lower_or_empty(OrElse(OrElse(get("moddate"), get("modified")),
                                           get("mod_date")))]

create_result(ok, message, verdict, pdf_path, confidence) ==
    [ok |-> ok, message |-> message, verdict |-> verdict, file |-> pdf_path,
     confidence |-> confidence]

validate_scan_document(w) ==
    LET metadata == extract_all_metadata(w)
        hit == is_in_blacklist(metadata.creator, metadata.producer, SCAN_BLACKLIST)
    IN  IF hit[1]
        THEN Return(create_result(FALSE,
                 "Document falsifie : application interdite detectee (" \o hit[2] \o ")",
                 "falsified", PDF_PATH, "high"))
        ELSE Return(create_result(TRUE,
                 "Document valide : aucune application suspecte detectee",
                 "valid", PDF_PATH, "high"))

\* The calls validate_scan_document(pdf_path) can be: what the document holds
\* and what the call gives back.
MetadataRuns ==
    {[world |-> w, result |-> validate_scan_document(w)] : w \in MetadataWorlds}

(***************************************************************************)
(* validate_scan_document on its own: any creator and producer text, as    *)
(* PyMuPDF gives them (PyPDF2 absent).  The texts hold no entry, one       *)
(* entry, several entries, an entry inside a longer word, and an entry     *)
(* that only the two fields together spell.                                *)
(***************************************************************************)
MetaTexts ==
    {"", "HP Scan", "Adobe Photoshop 25.0", "GIMP 2.10", "Paint 3D",
     "Microsoft Word", "Mosaic Viewer", "Affinity", "Photo 2", "Canva",
     "PAINTSHOP PRO", " Krita\n"}

InitValidate ==
    /\ env = DefaultEnv
    /\ pc = "validate"
    /\ report = EmptyDict
    /\ stdout = << >>
    /\ exit_code = NoExit
    /\ ran = << >>
    /\ sig = NoSignal
    /\ calls = << >>

Validate ==
    /\ pc = "validate"
    /\ \E c \in MetaTexts, p \in MetaTexts :
          LET w == [pypdf |-> [kind |-> "absent"],
                    fitz |-> [kind |-> "ok", info |-> [creator |-> c, producer |-> p]]]
          IN  sig' = [step |-> "validate", world |-> w,
                      result |-> validate_scan_document(w)]
    /\ pc' = "validated"
    /\ UNCHANGED <<env, report, stdout, exit_code, ran, calls>>

NextValidate == Validate

SpecValidate == InitValidate /\ [][NextValidate]_vars

(***************************************************************************)
(* rescan/rescan_detector.py                                               *)
(*                                                                         *)
(* Scores are in tenths: 425 is 42.5.  What the rescan signal reads is one *)
(* record w: "raise" (opening the file, extracting or scoring an image     *)
(* raised), "noimages" (no qualifying image), or "scored" with the         *)
(* document's average scores.                                              *)
(***************************************************************************)
QUALITY_CORE_MIN == 250
QUALITY_CORE_MAX == 425
ART_CORE_MIN == 650
ART_CORE_MAX == 750
QUALITY_SUSPECT_MAX == 560
ART_SUSPECT_MAX == 780

QualityScores == {249, 250, 300, 425, 426, 440, 441, 500, 559, 560}
ArtifactScores == {200, 649, 650, 750, 751, 780, 781}

RescanOutcomes ==
    {[kind |-> "raise", type |-> "FileDataError", text |-> "cannot open " \o PDF_PATH],
     [kind |-> "noimages"]}
        \cup {[kind |-> "scored", avg_quality_score |-> q, avg_artifact_score |-> a] :
                 q \in QualityScores, a \in ArtifactScores}

\* A file that does not exist cannot be opened.
RescanWorldFits(e, w) == ~e.isfile => w.kind = "raise"

\* f"{x:.1f}" and f"{x:.0f}" of a score in tenths.
Format1(x) == ToString(x \div 10) \o "." \o ToString(x % 10)
Format0(x) ==
    LET q == x \div 10
        r == x % 10
    IN  ToString(IF r > 5 \/ (r = 5 /\ q % 2 = 1) THEN q + 1 ELSE q)

analyze_pdf(w) ==
    IF w.kind = "raise" THEN Raise(w.type, w.text)
    ELSE IF w.kind = "noimages"
    THEN Return([error |-> "Aucune image trouvee dans le PDF"])
    ELSE Return([file_path |-> PDF_PATH,
                 avg_quality_score |-> w.avg_quality_score,
                 avg_artifact_score |-> w.avg_artifact_score])

\* The two scoring functions.  A measurement is an integer number of
\* thousandths (8000 is 8.0), a ratio such as m['entropy'] / 8.0 an integer
\* number of millionths, and the score an integer number of millionths of a
\* point (100000000 is 100.0): with these units every division is exact.
Min(a, b) == IF a <= b THEN a ELSE b

calculate_quality_score(m) ==
    LET s1 == Min((m.laplacian_variance * 1000) \div 1000, 1000000) * 25
        s2 == s1 + ((m.entropy * 1000) \div 8) * 20
        s3 == s2 + Min((m.rms_contrast * 1000) \div 100, 1000000) * 20
        s4 == s3 + Max(0, 1000000 - (m.noise_estimate * 1000) \div 50) * 20
        s5 == s4 + Min((m.high_frequency_content * 1000) \div 1000, 1000000) * 15
    IN  s5

calculate_artifact_score(a) ==
    LET s1 == Min((a.halftone_score * 1000) \div 10, 1000000) * 30
        s2 == s1 + Min(a.edge_irregularity * 1000, 1000000) * 25
        s3 == s2 + Min((a.compression_artifacts * 1000) \div 5, 1000000) * 25
        s4 == s3 + Min(a.grid_pattern_score * 1000 * 1000, 1000000) * 20
    IN  s4

in_a_core(artefact) == ART_CORE_MIN <= artefact /\ artefact <= ART_CORE_MAX

\* A plausible slip: the lower quality bound of the core zone is exclusive.
in_q_core_exclusive(qualite) ==
    QUALITY_CORE_MIN < qualite /\ qualite <= QUALITY_CORE_MAX

in_q_core(qualite) == QUALITY_CORE_MIN <= qualite /\ qualite <= QUALITY_CORE_MAX

\* The three alternatives of the `elif` of build_rescan_json, in its order.
clause_a(qualite, artefact) ==
    in_a_core(artefact) /\ QUALITY_CORE_MAX < qualite /\ qualite < QUALITY_SUSPECT_MAX

\* A plausible slip: the upper artefact bound of the suspect zone is exclusive.
clause_b_exclusive(qualite, artefact) ==
    in_q_core(qualite) /\ ART_CORE_MAX < artefact /\ artefact < ART_SUSPECT_MAX

clause_b(qualite, artefact) ==
    in_q_core(qualite) /\ ART_CORE_MAX < artefact /\ artefact <= ART_SUSPECT_MAX

clause_c(qualite, artefact) ==
    QUALITY_CORE_MAX < qualite /\ qualite <= 440 /\ in_a_core(artefact)

MESSAGE_A == "artefacts dans l'intervalle et qualite legerement elevee : re-scan suspect"
MESSAGE_B == "qualite dans l'intervalle et artefacts legerement eleves : re-scan suspect"
MESSAGE_ELSE == "proche des seuils re-scan : re-scan suspect"

\* A plausible slip: the narrow band next to the core zone is tested first.
suspect_message_band_first(qualite, artefact) ==
    IF clause_c(qualite, artefact) THEN MESSAGE_ELSE
    ELSE IF clause_a(qualite, artefact) THEN MESSAGE_A
    ELSE MESSAGE_B

\* The inner if / elif / else of the suspect branch.
suspect_message(qualite, artefact) ==
    IF clause_a(qualite, artefact) THEN MESSAGE_A
    ELSE IF clause_b(qualite, artefact) THEN MESSAGE_B
    ELSE MESSAGE_ELSE

build_rescan_json(file_path, qualite, artefact) ==
    LET rescan ==
            IF in_q_core(qualite) /\ in_a_core(artefact)
            THEN [verdict |-> TRUE, status |-> "invalid", level |-> "core",
                  message |-> "qualite " \o Format1(qualite) \o " dans ["
                      \o Format0(QUALITY_CORE_MIN) \o "," \o Format0(QUALITY_CORE_MAX)
                      \o "] ET artefacts " \o Format1(artefact) \o " dans ["
                      \o Format0(ART_CORE_MIN) \o "," \o Format0(ART_CORE_MAX)
                      \o "] : re-scan detecte (document falsifie)"]
            ELSE IF \/ clause_a(qualite, artefact)
                    \/ clause_b(qualite, artefact)
                    \/ clause_c(qualite, artefact)
            THEN [verdict |-> TRUE, status |-> "invalid", level |-> "suspect",
                  message |-> suspect_message(qualite, artefact)]
            ELSE [verdict |-> FALSE, status |-> "valid", level |-> "none",
                  message |-> "qualite " \o Format1(qualite) \o " / artefacts "
                      \o Format1(artefact) \o " hors zones re-scan : document conforme"]
    IN  [file |-> file_path, qualite |-> qualite, artefact |-> artefact,
         rescan |-> rescan]

(***************************************************************************)
(* build_rescan_json on its own: any pair of scores.  The scores drawn     *)
(* stand on both sides of every threshold of the classifier.               *)
(***************************************************************************)
ClassifyQualities ==
    {0, 249, 250, 251, 300, 424, 425, 426, 430, 439, 440, 441, 500, 559, 560, 561, 1000}
ClassifyArtifacts ==
    {0, 250, 649, 650, 651, 700, 749, 750, 751, 760, 779, 780, 781, 1000}

InitClassify ==
    /\ env = DefaultEnv
    /\ pc = "classify"
    /\ report = EmptyDict
    /\ stdout = << >>
    /\ exit_code = NoExit
    /\ ran = << >>
    /\ sig = NoSignal
    /\ calls = << >>

Classify ==
    /\ pc = "classify"
    /\ \E q \in ClassifyQualities, a \in ClassifyArtifacts :
          sig' = [step |-> "classify", qualite |-> q, artefact |-> a,
                  result |-> build_rescan_json(PDF_PATH, q, a)]
    /\ UNCHANGED <<env, pc, report, stdout, exit_code, ran, calls>>

NextClassify == Classify

SpecClassify == InitClassify /\ [][NextClassify]_vars

(***************************************************************************)
(* The scoring functions on their own: any measurement record with finite  *)
(* non-negative fields, below, at and above the value at which each term   *)
(* reaches its weight.                                                     *)
(***************************************************************************)
QualityMetrics ==
    [laplacian_variance : {0, 500000, 2000000},
     entropy : {0, 4000, 8000, 16000},
     noise_estimate : {0, 25000, 100000},
     rms_contrast : {0, 50000, 200000},
     mean_gradient_magnitude : {12500},
     high_frequency_content : {0, 500000, 2000000}]

ArtifactMetrics ==
    [halftone_score : {0, 5000, 20000},
     edge_irregularity : {0, 500, 1500},
     compression_artifacts : {0, 2500, 9000},
     grid_pattern_score : {0, 1, 5}]

InitScore ==
    /\ env = DefaultEnv
    /\ pc = "score"
    /\ report = EmptyDict
    /\ stdout = << >>
    /\ exit_code = NoExit
    /\ ran = << >>
    /\ sig = NoSignal
    /\ calls = << >>

ScoreQuality ==
    /\ pc = "score"
    /\ \E m \in QualityMetrics :
          sig' = [step |-> "quality", metrics |-> m,
                  score |-> calculate_quality_score(m)]
    /\ UNCHANGED <<env, pc, report, stdout, exit_code, ran, calls>>

ScoreArtifact ==
    /\ pc = "score"
    /\ \E a \in ArtifactMetrics :
          sig' = [step |-> "artifact", metrics |-> a,
                  score |-> calculate_artifact_score(a)]
    /\ UNCHANGED <<env, pc, report, stdout, exit_code, ran, calls>>

NextScore == ScoreQuality \/ ScoreArtifact

SpecScore == InitScore /\ [][NextScore]_vars

(***************************************************************************)
(* main.py: main().  Each block of main is an operator from the report and *)
(* the signal's outcome to Outcome(report, submitted, exit): the report as *)
(* the block leaves it, the pairs it gave to _update_overall, and whether  *)
(* it printed the report and called sys.exit(0).                           *)
(***************************************************************************)
Outcome(rep, submitted, exit) ==
    [report |-> rep, submitted |-> submitted, exit |-> exit]

\* repr(e) of an exception: the message is quoted with ", not ', when it
\* holds a '.
Repr(c) ==
    LET q == IF Contains(c.text, "'") THEN "\"" ELSE "'"
    IN  c.type \o "(" \o q \o c.text \o q \o ")"

\* report[section] = {"verdict": verdict, "message": msg}, then
\* _update_overall(report, verdict, msg).
Record(rep, section, verdict, msg, exit) ==
    Outcome(_update_overall(DictSet(rep, section, [verdict |-> verdict, message |-> msg]),
                            verdict, msg),
            <<Submission(verdict, msg)>>, exit)

\* A plausible slip: a detected rewrite is recorded without leaving main.
main_revision_noexit(rep, c) ==
    IF c.kind = "return"
    THEN IF c.value # None
         THEN LET rev_res == c.value
                  rewrites == DictGet(rev_res, "rewrites", 0)
              IN  IF "rewrites" \in DOMAIN rev_res /\ rewrites > 0
                  THEN Record(rep, "revision", "falsified",
                              DictGet(rev_res, "message", "Reecritures detectees"), FALSE)
                  ELSE Record(rep, "revision", "valid",
                              DictGet(rev_res, "message", "Revisions coherentes"), FALSE)
         ELSE Record(rep, "revision", "unknown",
                     "Format inattendu analyze_pdf_with_cli", FALSE)
    ELSE IF c.type = "PdfResurrectNotFound"
    THEN Record(rep, "revision", "unknown", "pdfresurrect introuvable", FALSE)
    ELSE Record(rep, "revision", "invalid", "Erreur analyse revisions: " \o Repr(c), FALSE)

\* Lines 78-104.
main_revision(rep, c) ==
    IF c.kind = "return"
    THEN IF c.value # None
         THEN LET rev_res == c.value
                  rewrites == DictGet(rev_res, "rewrites", 0)
              IN  IF "rewrites" \in DOMAIN rev_res /\ rewrites > 0
                  THEN Record(rep, "revision", "falsified",
                              DictGet(rev_res, "message", "Reecritures detectees"), TRUE)
                  ELSE Record(rep, "revision", "valid",
                              DictGet(rev_res, "message", "Revisions coherentes"), FALSE)
         ELSE Record(rep, "revision", "unknown",
                     "Format inattendu analyze_pdf_with_cli", FALSE)
    ELSE IF c.type = "PdfResurrectNotFound"
    THEN Record(rep, "revision", "unknown", "pdfresurrect introuvable", FALSE)
    ELSE Record(rep, "revision", "invalid", "Erreur analyse revisions: " \o Repr(c), FALSE)

\* A plausible slip: only "invalid" stops the pipeline after the metadata.
main_metadata_invalidonly(rep, c) ==
    IF c.kind = "return"
    THEN IF c.value # None
         THEN LET md_res == c.value
                  v == _norm_verdict(DictGet(md_res, "verdict", "unknown"))
                  msg == DictGet(md_res, "message", "")
              IN  Record(rep, "metadata", v, msg, v \in {"invalid"})
         ELSE Record(rep, "metadata", "invalid",
                     "Retour inattendu analyse metadonnees", TRUE)
    ELSE Record(rep, "metadata", "invalid",
                "Erreur analyse metadonnees: " \o Repr(c), TRUE)

\* A plausible slip: the verdict of the metadata never stops the pipeline.
main_metadata_noexit(rep, c) ==
    IF c.kind = "return"
    THEN IF c.value # None
         THEN LET md_res == c.value
                  v == _norm_verdict(DictGet(md_res, "verdict", "unknown"))
                  msg == DictGet(md_res, "message", "")
              IN  Record(rep, "metadata", v, msg, FALSE)
         ELSE Record(rep, "metadata", "invalid",
                     "Retour inattendu analyse metadonnees", TRUE)
    ELSE Record(rep, "metadata", "invalid",
                "Erreur analyse metadonnees: " \o Repr(c), TRUE)

\* Lines 106-128.
main_metadata(rep, c) ==
    IF c.kind = "return"
    THEN IF c.value # None
         THEN LET md_res == c.value
                  v == _norm_verdict(DictGet(md_res, "verdict", "unknown"))
                  msg == DictGet(md_res, "message", "")
              IN  Record(rep, "metadata", v, msg, v \in {"falsified", "invalid"})
         ELSE Record(rep, "metadata", "invalid",
                     "Retour inattendu analyse metadonnees", TRUE)
    ELSE Record(rep, "metadata", "invalid",
                "Erreur analyse metadonnees: " \o Repr(c), TRUE)

\* report["criteria"]["rescan"] = entry, then _update_overall(report, verdict, msg).
RecordRescan(rep, entry, verdict, msg, exit) ==
    Outcome(_update_overall([rep EXCEPT !.criteria = DictSet(@, "rescan", entry)],
                            verdict, msg),
            <<Submission(verdict, msg)>>, exit)

\* A plausible slip: the zones suspect and none exchanged.
ZoneVerdict_swapped(level) ==
    IF level = "core" THEN "falsified"
    ELSE IF level = "suspect" THEN "valid"
    ELSE "suspect"

\* The verdict of a zone, lines 146-151.
ZoneVerdict(level) ==
    IF level = "core" THEN "falsified"
    ELSE IF level = "suspect" THEN "suspect"
    ELSE "valid"

\* A plausible slip: a rescan that cannot score reported as invalid.
RescanFailure_invalid(rep, msg) ==
    RecordRescan(rep, [verdict |-> "invalid", message |-> msg], "invalid", msg, FALSE)

\* Lines 134-137 and 172-178.
RescanFailure(rep, msg) ==
    RecordRescan(rep, [verdict |-> "unknown", message |-> msg], "unknown", msg, FALSE)

\* Lines 130-178.
main_rescan(rep, c) ==
    IF c.kind = "raise"
    THEN RescanFailure(rep, "Erreur rescan: " \o c.type \o ": " \o c.text)
    ELSE IF "error" \in DOMAIN c.value
    THEN RescanFailure(rep, OrElse(c.value.error, "Erreur rescan"))
    ELSE LET ra == c.value
             qual == ra.avg_quality_score
             art == ra.avg_artifact_score
             rz == build_rescan_json(ra.file_path, qual, art)
             level == rz.rescan.level
             message == rz.rescan.message
             vtxt == ZoneVerdict(level)
             entry == [verdict |-> vtxt,
                       message |-> message,
                       scores |-> [quality_avg |-> qual,
                                   artifact_avg |-> art,
                                   quality_interval_core |->
                                       <<QUALITY_CORE_MIN, QUALITY_CORE_MAX>>,
                                   artifact_interval_core |->
                                       <<ART_CORE_MIN, ART_CORE_MAX>>]]
         IN  IF level = "core"
             THEN RecordRescan(rep, entry, "falsified", message, TRUE)
             ELSE IF level = "suspect"
             THEN RecordRescan(rep, entry, "suspect", message, FALSE)
             ELSE RecordRescan(rep, entry, "valid", message, FALSE)

(***************************************************************************)
(* One run of main.py.                                                     *)
(***************************************************************************)
Init ==
    /\ env \in [argc : {1, 2, 3}, which : BOOLEAN, isfile : BOOLEAN]
    /\ pc = "start"
    /\ report = EmptyDict
    /\ stdout = << >>
    /\ exit_code = NoExit
    /\ ran = << >>
    /\ sig = NoSignal
    /\ calls = << >>

\* A plausible slip: the criteria section created with its rescan entry.
InitialReport_rescan_entry ==
    [document |-> [path |-> PDF_PATH, type |-> "scan"],
     revision |-> EmptyDict,
     metadata |-> EmptyDict,
     criteria |-> [rescan |-> EmptyDict],
     overall |-> _init_overall]

\* Lines 70-76.
InitialReport ==
    [document |-> [path |-> PDF_PATH, type |-> "scan"],
     revision |-> EmptyDict,
     metadata |-> EmptyDict,
     criteria |-> EmptyDict,
     overall |-> _init_overall]

\* Lines 63-65.
Usage ==
    /\ pc = "start"
    /\ env.argc # 2
    /\ stdout' = Append(stdout, [error |-> "Usage: python3 main.py <fichier.pdf>"])
    /\ exit_code' = <<2>>
    /\ pc' = "usage-error"
    /\ UNCHANGED <<env, report, ran, sig, calls>>

\* Lines 67-76.
Start ==
    /\ pc = "start"
    /\ env.argc = 2
    /\ report' = InitialReport
    /\ pc' = "revision"
    /\ UNCHANGED <<env, stdout, exit_code, ran, sig, calls>>

\* A plausible slip: a block that stops the pipeline exits without printing.
Proceed_noprint(o, next) ==
    /\ report' = o.report
    /\ calls' = calls \o o.submitted
    /\ IF o.exit
       THEN /\ exit_code' = <<0>>
            /\ pc' = "short-circuited"
            /\ UNCHANGED stdout
       ELSE /\ pc' = next
            /\ UNCHANGED <<stdout, exit_code>>

\* What every block does with its outcome o: keep the report, and either print
\* it and exit with status 0, or go on to the block `next`.  A block runs
\* once: the actions bind o to the outcome of that one run.
Proceed(o, next) ==
    /\ report' = o.report
    /\ calls' = calls \o o.submitted
    /\ IF o.exit
       THEN /\ stdout' = Append(stdout, o.report)
            /\ exit_code' = <<0>>
            /\ pc' = "short-circuited"
       ELSE /\ pc' = next
            /\ UNCHANGED <<stdout, exit_code>>

Signal(step, w, c) == [step |-> step, world |-> w, result |-> c]

\* Lines 78-104.
Revision ==
    /\ pc = "revision"
    /\ \E run \in RevisionRuns :
          /\ run.which = env.which
          /\ run.isfile = env.isfile
          /\ sig' = Signal("revision", run.world, run.result)
          /\ \E o \in {main_revision(report, run.result)} : Proceed(o, "metadata")
    /\ ran' = Append(ran, "revision")
    /\ UNCHANGED env

\* Lines 106-128.
Metadata ==
    /\ pc = "metadata"
    /\ \E run \in MetadataRuns :
          /\ MetadataWorldFits(env, run.world)
          /\ sig' = Signal("metadata", run.world, run.result)
          /\ \E o \in {main_metadata(report, run.result)} : Proceed(o, "rescan")
    /\ ran' = Append(ran, "metadata")
    /\ UNCHANGED env

\* Lines 130-182: the rescan block, then the final print and exit when the
\* block did not exit itself.
Rescan ==
    /\ pc = "rescan"
    /\ \E w \in RescanOutcomes :
          /\ RescanWorldFits(env, w)
          /\ \E c \in {analyze_pdf(w)} :
              /\ sig' = Signal("rescan", w, c)
              /\ \E o \in {main_rescan(report, c)} :
                    /\ report' = o.report
                    /\ calls' = calls \o o.submitted
                    /\ stdout' = Append(stdout, o.report)
                    /\ exit_code' = <<0>>
                    /\ pc' = IF o.exit THEN "short-circuited" ELSE "completed"
    /\ ran' = Append(ran, "rescan")
    /\ UNCHANGED env

Next == Usage \/ Start \/ Revision \/ Metadata \/ Rescan

Spec == Init /\ [][Next]_vars

\* main is one sequential program: while a statement remains to be run, the
\* interpreter runs it, and every call main makes is taken to return or raise.
FairSpec == Spec /\ WF_vars(Next)

(***************************************************************************)
(* Claims about _update_overall, checked under SpecUpdate.                 *)
(***************************************************************************)
RECURSIVE MaxPriority(_)
MaxPriority(cs) ==
    IF cs = << >> THEN 0
    ELSE Max(_priority(Head(cs).verdict), MaxPriority(Tail(cs)))

ReasonsOf(cs) == [i \in 1..Len(cs) |-> cs[i].reason]

IsProblematic(c) == _norm_verdict(c.verdict) # "valid"
IsProblematicWithText(c) == _norm_verdict(c.verdict) # "valid" /\ c.reason # ""

\* C1: the priority of overall.verdict is the maximum of the priorities of the
\* verdicts submitted so far (0 if none), and no call lowers it.
C1_SeverityIsMax ==
    /\ [](_priority(report.overall.verdict) = MaxPriority(calls))
    /\ [][_priority(report'.overall.verdict) >= _priority(report.overall.verdict)]_vars

C1_Witness ==
    /\ Len(calls) = 3
    /\ _priority(calls[1].verdict) = 1
    /\ _priority(calls[2].verdict) = 3
    /\ _priority(calls[3].verdict) = 2
    /\ report.overall.verdict = "falsified"

\* C2 as stated: overall.reasons is exactly the list of the messages submitted
\* with a verdict that does not normalize to valid, in submission order.
C2_ReasonsExact ==
    report.overall.reasons = ReasonsOf(SelectSeq(calls, IsProblematic))

\* C2 amended: overall.reasons is exactly the list of the non-empty messages
\* submitted with a verdict that does not normalize to valid, in submission
\* order; an empty message is never appended.
C2_ReasonsExactNonEmpty ==
    report.overall.reasons = ReasonsOf(SelectSeq(calls, IsProblematicWithText))

C2_Witness ==
    /\ Len(calls) = 3
    /\ \E i, j, k \in 1..3 :
          /\ _norm_verdict(calls[i].verdict) = "unknown" /\ calls[i].reason = "r1"
          /\ _norm_verdict(calls[j].verdict) = "valid" /\ calls[j].reason = "r2"
          /\ _norm_verdict(calls[k].verdict) = "falsified" /\ calls[k].reason = ""
    /\ report.overall.reasons = <<"r1">>

(***************************************************************************)
(* Claims about one run of main.py, checked under Spec.                    *)
(***************************************************************************)
AfterRevision == sig.step = "revision"
AfterMetadata == sig.step = "metadata"
AfterRescan == sig.step = "rescan"

HasRun(name) == \E i \in 1..Len(ran) : ran[i] = name

DateMethods == {"dates_pdf_metadata", "dates_filesystem"}

\* The revision result is the outcome of a comparison of dates.
DatesCompared ==
    /\ AfterRevision
    /\ sig.result.kind = "return"
    /\ sig.result.value.method \in DateMethods

\* The timestamps the comparison looks at differ: the two PDF dates when the
\* document gives both, else the file's ctime and mtime, more than 1 s apart.
ComparedTimestampsDiffer(w) ==
    IF /\ w.pdf.kind = "ok"
       /\ DateKeys \subseteq DOMAIN w.pdf.metadata
    THEN w.pdf.metadata["/CreationDate"] # w.pdf.metadata["/ModDate"]
    ELSE Abs(w.ctime_ms - w.mtime_ms) > 1000

\* C3: when the tool is available and reports n >= 2 versions, rewrites is
\* n - 1, the revision verdict is falsified, main prints the report and exits
\* right after the revision block, and the metadata and rescan signals are
\* not run; no run in which they ran has a falsified revision verdict.
C3_ToolRewritesShortCircuit ==
    /\ \A n \in 2..MaxVersions :
          (/\ AfterRevision
           /\ env.which
           /\ env.isfile
           /\ sig.world.tool = [kind |-> "out", out |-> ToolLine(n) \o "\n"])
          => /\ sig.result.kind = "return"
             /\ sig.result.value.rewrites = n - 1
             /\ report.revision.verdict = "falsified"
             /\ pc = "short-circuited"
             /\ stdout = <<report>>
             /\ exit_code = <<0>>
             /\ ran = <<"revision">>
             /\ report.metadata = EmptyDict
             /\ report.criteria = EmptyDict
    /\ (HasRun("metadata") \/ HasRun("rescan"))
          => report.revision.verdict # "falsified"

C3_Witness ==
    /\ AfterRevision
    /\ sig.world.tool = [kind |-> "out", out |-> ToolLine(3) \o "\n"]
    /\ report.revision =
          [verdict |-> "falsified", message |-> "2 reecritures detectees (pdfresurrect)."]
    /\ pc = "short-circuited"

\* C4 as stated: when the date comparison finds different timestamps, the
\* revision verdict is not falsified, the overall verdict is not falsified and
\* main goes on to the metadata block.
C4_DateMismatchNotConclusive ==
    (DatesCompared /\ ComparedTimestampsDiffer(sig.world))
    => /\ report.revision.verdict # "falsified"
       /\ report.overall.verdict # "falsified"
       /\ pc = "metadata"

\* C4 amended: when the date comparison finds different timestamps, it reports
\* rewrites = 1, which main treats as any rewrite: the revision verdict and the
\* overall verdict are falsified and main exits right after the revision
\* block, without running the metadata signal.
C4_DateMismatchFalsifies ==
    (DatesCompared /\ ComparedTimestampsDiffer(sig.world))
    => /\ sig.result.value.rewrites = 1
       /\ report.revision.verdict = "falsified"
       /\ report.overall.verdict = "falsified"
       /\ report.overall.reasons = <<sig.result.value.message>>
       /\ pc = "short-circuited"
       /\ ran = <<"revision">>

C4_Witness ==
    /\ DatesCompared
    /\ ~env.which
    /\ sig.world.pdf.kind = "raise"
    /\ sig.world.ctime_ms - sig.world.mtime_ms = 1001
    /\ pc = "short-circuited"

\* An exception is raised inside the revision signal: the file is missing, or
\* the tool exits with an error.
RevisionRaises ==
    /\ AfterRevision
    /\ \/ ~env.isfile
       \/ env.which /\ sig.world.tool.kind = "error"

RevisionExceptionText ==
    IF ~env.isfile THEN FileNotFoundText ELSE sig.world.tool.text

\* C5: an exception raised inside the revision signal gives the revision
\* verdict unknown with the exception's description in the message, and does
\* not leave analyze_pdf_complete.
C5_RevisionExceptionUnknown ==
    RevisionRaises
    => /\ sig.result.kind = "return"
       /\ report.revision.verdict = "unknown"
       /\ Contains(report.revision.message, RevisionExceptionText)

\* C6: when the tool is not installed and the compared timestamps are equal,
\* the result is the date comparison's, the revision verdict is valid, no
\* reason is added, the overall verdict stays valid and main goes on.
C6_ToolAbsentNotADefect ==
    (/\ AfterRevision
     /\ ~env.which
     /\ env.isfile
     /\ sig.world.stat_ok
     /\ ~ComparedTimestampsDiffer(sig.world))
    => /\ sig.result.kind = "return"
       /\ sig.result.value.method \in DateMethods
       /\ sig.result.value.rewrites = 0
       /\ report.revision.verdict = "valid"
       /\ report.overall = _init_overall
       /\ pc = "metadata"
       /\ stdout = << >>

C6_Witness ==
    /\ AfterRevision
    /\ ~env.which
    /\ env.isfile
    /\ sig.world.stat_ok
    /\ sig.world.pdf.kind = "ok"
    /\ DateKeys \subseteq DOMAIN sig.world.pdf.metadata
    /\ ~ComparedTimestampsDiffer(sig.world)
    /\ report.revision.verdict = "valid"
    /\ pc = "metadata"

\* C7: once the metadata block has run, a metadata verdict of falsified or
\* invalid means main printed the report and exited without running the rescan
\* signal; any other verdict means main went on to the rescan block.  The
\* metadata block itself exits exactly on those two verdicts, whatever verdict
\* string the signal's dict carries.
C7_MetadataShortCircuit ==
    /\ ("metadata" \in DOMAIN report /\ report.metadata # EmptyDict)
          => IF _norm_verdict(report.metadata.verdict) \in {"falsified", "invalid"}
             THEN /\ pc = "short-circuited"
                  /\ ran = <<"revision", "metadata">>
                  /\ stdout = <<report>>
                  /\ exit_code = <<0>>
                  /\ report.criteria = EmptyDict
             ELSE \/ pc = "rescan" /\ stdout = << >> /\ exit_code = NoExit
                  \/ ran = <<"revision", "metadata", "rescan">>
    /\ \A v \in VerdictStrings :
          LET o == main_metadata(InitialReport,
                                 Return(create_result(FALSE, "m", v, PDF_PATH, "high")))
          IN  /\ o.report.metadata.verdict = _norm_verdict(v)
              /\ o.exit <=> _norm_verdict(v) \in {"falsified", "invalid"}

C7_Witness ==
    /\ AfterMetadata
    /\ report.metadata.verdict = "falsified"
    /\ report.revision.verdict = "valid"
    /\ report.overall.verdict = "falsified"
    /\ pc = "short-circuited"

\* An exception is raised while the metadata is extracted.
MetadataExtractionRaises ==
    /\ AfterMetadata
    /\ sig.world.pypdf.kind = "raise" \/ sig.world.fitz.kind = "raise"

\* C8: an exception raised while extracting the metadata gives the metadata
\* verdict invalid, an overall verdict of invalid or worse, and a report
\* printed without running the rescan signal.
C8_ExtractionFailureInvalid ==
    MetadataExtractionRaises
    => /\ report.metadata.verdict = "invalid"
       /\ _priority(report.overall.verdict) >= 2
       /\ pc = "short-circuited"
       /\ ~HasRun("rescan")

\* The rescan block runs in this step and gets scores.
RescanScores ==
    /\ pc = "rescan"
    /\ sig'.step = "rescan"
    /\ sig'.world.kind = "scored"

\* The rescan block runs in this step and gets no scores.
RescanFails ==
    /\ pc = "rescan"
    /\ sig'.step = "rescan"
    /\ sig'.world.kind \in {"raise", "noimages"}

\* C9: the zone gives the rescan verdict by core -> falsified, suspect ->
\* suspect, none -> valid; core exits at once with overall verdict falsified;
\* suspect and none reach the final print, with an overall verdict of suspect
\* or worse for suspect and an unchanged overall for none.
C9_ZoneVerdictAndExit ==
    [][RescanScores =>
          LET level == build_rescan_json(PDF_PATH, sig'.world.avg_quality_score,
                                         sig'.world.avg_artifact_score).rescan.level
              v == report'.criteria.rescan.verdict
          IN  /\ level = "core" =>
                    /\ v = "falsified"
                    /\ pc' = "short-circuited"
                    /\ report'.overall.verdict = "falsified"
              /\ level = "suspect" =>
                    /\ v = "suspect"
                    /\ pc' = "completed"
                    /\ _priority(report'.overall.verdict) >= 1
              /\ level = "none" =>
                    /\ v = "valid"
                    /\ pc' = "completed"
                    /\ report'.overall = report.overall
              /\ level \in {"core", "suspect", "none"}
              /\ stdout' = <<report'>>
              /\ exit_code' = <<0>>]_vars

C9_Witness ==
    /\ AfterRescan
    /\ sig.world.kind = "scored"
    /\ sig.world.avg_quality_score = 440
    /\ sig.world.avg_artifact_score = 750
    /\ report.criteria.rescan.verdict = "suspect"
    /\ report.overall.verdict = "suspect"
    /\ pc = "completed"

\* C10: when the rescan signal gives no scores (no qualifying image, or an
\* exception), the rescan verdict is unknown, main reaches the final print,
\* the overall verdict is left as it was and its priority is the maximum of
\* the priorities of the revision and metadata verdicts.
C10_RescanFailureUnknown ==
    [][RescanFails =>
          /\ report'.criteria.rescan.verdict = "unknown"
          /\ pc' = "completed"
          /\ stdout' = <<report'>>
          /\ exit_code' = <<0>>
          /\ report'.overall.verdict = report.overall.verdict
          /\ _priority(report'.overall.verdict) =
                Max(_priority(report'.revision.verdict),
                    _priority(report'.metadata.verdict))]_vars

C10_Witness ==
    /\ AfterRescan
    /\ sig.world.kind = "noimages"
    /\ report.criteria.rescan =
          [verdict |-> "unknown", message |-> "Aucune image trouvee dans le PDF"]
    /\ report.overall =
          [verdict |-> "valid", reasons |-> <<"Aucune image trouvee dans le PDF">>]
    /\ pc = "completed"

(***************************************************************************)
(* The claims on the classifier, under SpecClassify.  The zones are        *)
(* written here with the numbers of the statements, in tenths.             *)
(***************************************************************************)
Classified == sig.step = "classify"

InCoreZone(q, a) == 250 <= q /\ q <= 425 /\ 650 <= a /\ a <= 750
SuspectA(q, a) == 650 <= a /\ a <= 750 /\ 425 < q /\ q < 560
SuspectB(q, a) == 250 <= q /\ q <= 425 /\ 750 < a /\ a <= 780
SuspectC(q, a) == 425 < q /\ q <= 440 /\ 650 <= a /\ a <= 750

FirstClauseMessage(q, a) ==
    IF SuspectA(q, a) THEN MESSAGE_A
    ELSE IF SuspectB(q, a) THEN MESSAGE_B
    ELSE MESSAGE_ELSE

MessagesDistinct ==
    MESSAGE_A # MESSAGE_B /\ MESSAGE_A # MESSAGE_ELSE /\ MESSAGE_B # MESSAGE_ELSE

\* C13 as stated: the message of a suspect pair is that of the first of the
\* clauses (a), (b), (c) it satisfies, the three messages differ, and
\* (43.0, 70.0) is suspect by clause (c) and carries the message of (c).
C13_BandMessageForBandPair ==
    (Classified /\ sig.result.rescan.level = "suspect") =>
        /\ sig.result.rescan.message = FirstClauseMessage(sig.qualite, sig.artefact)
        /\ MessagesDistinct
        /\ (sig.qualite = 430 /\ sig.artefact = 700) =>
               /\ SuspectC(sig.qualite, sig.artefact)
               /\ sig.result.rescan.message = MESSAGE_ELSE

\* C13, amended: the message of a suspect pair is that of the first of the
\* clauses (a), (b), (c) it satisfies and the three messages differ; every
\* pair that satisfies (c) satisfies (a) as well, so it carries the message
\* of (a) - (43.0, 70.0) among them - and the message of (c) is never given.
C13_FirstClauseMessage ==
    (Classified /\ sig.result.rescan.level = "suspect") =>
        /\ sig.result.rescan.message = FirstClauseMessage(sig.qualite, sig.artefact)
        /\ MessagesDistinct
        /\ SuspectC(sig.qualite, sig.artefact) =>
               /\ SuspectA(sig.qualite, sig.artefact)
               /\ sig.result.rescan.message = MESSAGE_A
        /\ sig.result.rescan.message # MESSAGE_ELSE

C13_Witness ==
    /\ Classified
    /\ sig.qualite = 430
    /\ sig.artefact = 700
    /\ sig.result.rescan.level = "suspect"
    /\ sig.result.rescan.message = MESSAGE_A

(***************************************************************************)
(* The claim on the scoring functions, under SpecScore.                    *)
(***************************************************************************)
Scored == sig.step \in {"quality", "artifact"}

\* C14: for every measurement record with finite non-negative fields, the
\* quality score and the artifact score are both between 0 and 100 (in
\* millionths of a point: between 0 and 100000000).
C14_ScoresWithinRange ==
    Scored => 0 <= sig.score /\ sig.score <= 100 * 1000000

(***************************************************************************)
(* The claim on the metadata signal, under SpecValidate.                   *)
(***************************************************************************)
Validated == sig.step = "validate"

\* The creator and the producer of the document as the signal reads them,
\* combined, in lower case.
CombinedText(w) ==
    LET metadata == extract_all_metadata(w)
    IN  lower(metadata.creator \o " " \o metadata.producer)

\* The positions of the entries of the blacklist found in a text.
EntriesFound(text) ==
    {i \in 1..Len(SCAN_BLACKLIST) : Contains(text, lower(SCAN_BLACKLIST[i]))}

Normalized == sig.step = "normalize"

CanonicalVerdicts == {"valid", "suspect", "invalid", "falsified", "unknown"}

\* The canonical value of a word written in lower case without surrounding
\* whitespace: the canonical values stand for themselves, then the synonyms.
CanonicalOf(word) ==
    CASE word \in {"valid", "ok"} -> "valid"
      [] word \in {"suspect", "borderline", "warning", "warn"} -> "suspect"
      [] word \in {"invalid", "invalide"} -> "invalid"
      [] word \in {"falsified", "forged"} -> "falsified"
      [] OTHER -> "unknown"

\* C16: _norm_verdict always gives one of the five canonical values;
\* normalizing its result gives the same value; the case of the input does
\* not matter; ok gives valid, borderline and warning give suspect, invalide
\* gives invalid, forged gives falsified; any other word, and an empty or
\* missing value, gives unknown.
C16_NormVerdict ==
    Normalized =>
        /\ sig.result \in CanonicalVerdicts
        /\ _norm_verdict(sig.result) = sig.result
        /\ sig.result = CanonicalOf(sig.word)
        /\ sig.word = "ok" => sig.result = "valid"
        /\ sig.word \in {"borderline", "warning"} => sig.result = "suspect"
        /\ sig.word = "invalide" => sig.result = "invalid"
        /\ sig.word = "forged" => sig.result = "falsified"
        /\ sig.word \in {"", "n/a", "oui", "o k", "validd", "okay", "forge"} =>
               sig.result = "unknown"

C16_Witness ==
    /\ Normalized
    /\ sig.v = "\tFORGED\n"
    /\ sig.result = "falsified"
    /\ _norm_verdict(sig.result) = "falsified"

(***************************************************************************)
(* The claims on whole runs of main.                                       *)
(***************************************************************************)
Terminated == pc \in {"usage-error", "short-circuited", "completed"}

IsReport(doc) ==
    /\ "overall" \in DOMAIN doc
    /\ "verdict" \in DOMAIN doc.overall
    /\ doc.overall.verdict \in CanonicalVerdicts

ShortCircuitAfterRevision ==
    /\ pc = "short-circuited"
    /\ ran = <<"revision">>

\* C18 as stated: the report printed when main stops after the revision
\* signal has the overall verdict falsified and no criteria key.
C18_NoCriteriaKey ==
    ShortCircuitAfterRevision =>
        /\ stdout[1].overall.verdict = "falsified"
        /\ "criteria" \notin DOMAIN stdout[1]

\* C18, amended: the report printed when main stops after the revision
\* signal has the overall verdict falsified, whose only reason is the
\* revision message, and still has its criteria and metadata keys, each with
\* the empty object: no rescan entry, no metadata verdict.
C18_EmptyCriteria ==
    ShortCircuitAfterRevision =>
        /\ Len(stdout) = 1
        /\ stdout[1].overall.verdict = "falsified"
        /\ stdout[1].overall.reasons = <<stdout[1].revision.message>>
        /\ stdout[1].revision.verdict = "falsified"
        /\ DOMAIN stdout[1] = {"document", "revision", "metadata", "criteria", "overall"}
        /\ stdout[1].criteria = EmptyDict
        /\ stdout[1].metadata = EmptyDict

C18_Witness ==
    /\ ShortCircuitAfterRevision
    /\ sig.world.tool = [kind |-> "out", out |-> ToolLine(3) \o "\n"]
    /\ sig.result.value.rewrites = 2
    /\ stdout[1].overall.verdict = "falsified"
    /\ "criteria" \in DOMAIN stdout[1]
    /\ stdout[1].criteria = EmptyDict

\* The three signals ran and each came back clean: no rewrite, no
\* blacklisted application, scores outside the rescan zones.
AllSignalsClean ==
    /\ AfterRescan
    /\ ran = <<"revision", "metadata", "rescan">>
    /\ report.revision.verdict = "valid"
    /\ report.metadata.verdict = "valid"
    /\ sig.result.kind = "return"
    /\ "avg_quality_score" \in DOMAIN sig.result.value
    /\ report.criteria.rescan.verdict = "valid"

\* C19: when the three signals are clean, main reaches the final print with
\* the overall verdict valid and no reason: the messages the three signals
\* gave with their valid verdicts are in their sections, none is a reason.
C19_AllCleanValidNoReasons ==
    AllSignalsClean =>
        /\ pc = "completed"
        /\ exit_code = <<0>>
        /\ stdout = <<report>>
        /\ report.overall = [verdict |-> "valid", reasons |-> << >>]
        /\ Len(calls) = 3
        /\ \A i \in 1..Len(calls) :
              /\ calls[i].verdict = "valid"
              /\ calls[i].reason # ""
        /\ calls[1].reason = report.revision.message
        /\ calls[2].reason = report.metadata.message
        /\ calls[3].reason = report.criteria.rescan.message

C19_Witness ==
    /\ AllSignalsClean
    /\ sig.world.avg_quality_score = 500
    /\ sig.world.avg_artifact_score = 200
    /\ report.criteria.rescan.message =
          "qualite 50.0 / artefacts 20.0 hors zones re-scan : document conforme"
    /\ report.revision.message =
          "PDF non falsifie (dates de creation/modification identiques)."
    /\ report.overall = [verdict |-> "valid", reasons |-> << >>]
    /\ pc = "completed"

\* The tool ran on the document and printed a count of at least 2 versions.
ToolFindsRewrites ==
    /\ env.which
    /\ env.isfile
    /\ \E n \in 2..MaxVersions :
          sig.world.tool = [kind |-> "out", out |-> ToolLine(n) \o "\n"]

\* The tool ran on the document and printed anything else: one version, no
\* version, no count.
ToolFindsNothing ==
    /\ env.which
    /\ env.isfile
    /\ sig.world.tool.kind = "out"
    /\ \A n \in 2..MaxVersions : sig.world.tool.out # ToolLine(n) \o "\n"

ToolUnavailable == ~env.which /\ env.isfile

\* C20: in analyze_pdf_complete the tool comes first.  When it reports a
\* rewrite, its result is the result and no date is compared, whatever the
\* dates are; when it is unavailable, or runs and reports no rewrite, the
\* result is exactly that of the comparison of dates - rewrites = 1 when the
\* compared timestamps differ, even for a document the tool finds clean.
C20_ToolFirstThenDates ==
    AfterRevision =>
        /\ ToolFindsRewrites =>
              /\ sig.result = analyze_with_pdfresurrect(env, sig.world)
              /\ sig.result.kind = "return"
              /\ sig.result.value.method = "pdfresurrect"
              /\ sig.result.value.rewrites >= 1
        /\ (ToolFindsNothing \/ ToolUnavailable) =>
              /\ sig.result = analyze_with_dates(env, sig.world)
              /\ sig.result.kind = "return"
              /\ sig.result.value.method \in DateMethods \cup {"dates_error"}
              /\ sig.world.stat_ok =>
                    /\ sig.result.value.method \in DateMethods
                    /\ sig.result.value.rewrites =
                          IF ComparedTimestampsDiffer(sig.world) THEN 1 ELSE 0

C20_Witness ==
    /\ AfterRevision
    /\ ToolFindsNothing
    /\ sig.world.tool.out = ToolLine(1) \o "\n"
    /\ ComparedTimestampsDiffer(sig.world)
    /\ sig.result.value.rewrites = 1
    /\ sig.result.value.method = "dates_filesystem"
    /\ report.revision.verdict = "falsified"

\* The verdicts main has given to _update_overall so far are valid or
\* unknown, and one at least is unknown.
OnlyUnknownProblems ==
    /\ \A i \in 1..Len(calls) : calls[i].verdict \in {"valid", "unknown"}
    /\ \E i \in 1..Len(calls) : calls[i].verdict = "unknown"

\* The section the last signal wrote in a report: revision, metadata, or the
\* rescan entry of criteria.
LastSection(rep, signals) ==
    CASE signals[Len(signals)] = "revision" -> rep.revision
      [] signals[Len(signals)] = "metadata" -> rep.metadata
      [] OTHER -> rep.criteria.rescan

\* C21: in every report main prints, the overall verdict is valid, suspect,
\* invalid or falsified, never unknown.  A signal that comes back unknown
\* leaves the overall verdict as it was and adds its message to the reasons;
\* a run whose signals are all valid or unknown, one at least unknown, ends
\* with the overall verdict valid and a non-empty list of reasons.
C21_OverallNeverUnknown ==
    /\ [](\A i \in 1..Len(stdout) :
             IsReport(stdout[i]) =>
                 stdout[i].overall.verdict \in {"valid", "suspect", "invalid", "falsified"})
    /\ []((Terminated /\ env.argc = 2 /\ OnlyUnknownProblems) =>
             /\ stdout[1].overall.verdict = "valid"
             /\ stdout[1].overall.reasons # << >>
             /\ stdout[1].overall.reasons =
                    SelectSeq([i \in 1..Len(calls) |-> calls[i].reason],
                              LAMBDA r : \E i \in 1..Len(calls) :
                                  calls[i] = [verdict |-> "unknown", reason |-> r]))
    /\ [][(ran' # ran /\ LastSection(report', ran').verdict = "unknown") =>
             /\ report'.overall.verdict = report.overall.verdict
             /\ report'.overall.reasons =
                    Append(report.overall.reasons, LastSection(report', ran').message)]_vars

C21_Witness ==
    /\ pc = "completed"
    /\ OnlyUnknownProblems
    /\ sig.world.kind = "raise"
    /\ report.revision.verdict = "valid"
    /\ report.metadata.verdict = "valid"
    /\ report.criteria.rescan.verdict = "unknown"
    /\ stdout[1].overall =
          [verdict |-> "valid",
           reasons |-> <<"Erreur rescan: FileDataError: cannot open doc.pdf">>]

\* The three signal sections of a report, in the order main runs them.
SignalSections(rep) ==
    <<rep.revision, rep.metadata, DictGet(rep.criteria, "rescan", EmptyDict)>>

SectionIsFalsified(section) ==
    /\ "verdict" \in DOMAIN section
    /\ section.verdict = "falsified"

\* C22: in every report printed with the overall verdict falsified, exactly
\* one signal section has the verdict falsified; it is the section of the
\* last signal that ran, the sections of the later signals are empty, and
\* the last of the overall reasons is that section's message.
C22_FalsifiedShortCircuits ==
    \A i \in 1..Len(stdout) :
        (IsReport(stdout[i]) /\ stdout[i].overall.verdict = "falsified") =>
            LET sections == SignalSections(stdout[i])
                falsified == {k \in 1..3 : SectionIsFalsified(sections[k])}
                reasons == stdout[i].overall.reasons
            IN  /\ Cardinality(falsified) = 1
                /\ falsified = {Len(ran)}
                /\ \A k \in 1..3 : k > Len(ran) => DOMAIN sections[k] = {}
                /\ reasons # << >>
                /\ reasons[Len(reasons)] = sections[Len(ran)].message

C22_Witness ==
    /\ pc = "short-circuited"
    /\ ran = <<"revision", "metadata">>
    /\ stdout[1].overall.verdict = "falsified"
    /\ stdout[1].revision.verdict = "valid"
    /\ stdout[1].metadata.verdict = "falsified"
    /\ stdout[1].criteria = EmptyDict
    /\ stdout[1].overall.reasons[Len(stdout[1].overall.reasons)]
           = stdout[1].metadata.message

====
